---- MODULE Spec2Model ----
(***************************************************************************)
(* The "reset" command of internal/commands/reset.go as a state machine:   *)
(* resetAction with its five stages (index, cache, *.json sidecars, *.yml  *)
(* sidecars, *.yml album files), the helpers resetIndexDb, resetCache,     *)
(* resetSidecarJson and resetSidecarYaml, and the collaborators they call  *)
(* (the prompt, filepath.Glob, os.Remove, os.RemoveAll, the database).     *)
(***************************************************************************)
EXTENDS Integers, Sequences, FiniteSets, TLC

VARIABLES
    pc,         \* position of resetAction
    stage,      \* the stage resetAction is in
    ctx,        \* the command line flags: index, yes, trace
    conf,       \* the configuration: admin password, initialised or shut down
    fs,         \* the file system: existing path -> "file" | "dir"
    fs0,        \* the file system as it was when the command started
    db,         \* the index database: tables and administrator credential
    resetIndex, \* the local variable resetIndex of resetAction
    matches,    \* per file stage, the local variable matches (result of Glob)
    i,          \* loop position in matches of the running stage
    answer,     \* what the last prompt shown returned
    events,     \* everything the run did so far, in order
    out,        \* the progress characters printed to stdout
    logLevel,   \* the level of the logger
    result,     \* what resetAction returned
    run1        \* what an earlier run of the command did, for comparing two runs

vars == <<pc, stage, ctx, conf, fs, fs0, db, resetIndex, matches, i, answer, events, out, logLevel, result, run1>>

-----------------------------------------------------------------------------
(* Bounds *)

\* Deepest directory level below a root at which the initial tree holds files.
MaxDepth == 2

-----------------------------------------------------------------------------
(* Stages *)

Stages == <<"Index", "Cache", "SidecarJson", "SidecarYaml", "AlbumYaml">>

FileStages == {"Cache", "SidecarJson", "SidecarYaml", "AlbumYaml"}

AllStages == {"Index", "Cache", "SidecarJson", "SidecarYaml", "AlbumYaml"}

\* The place of each stage in the order of resetAction.
StageIndex == [s \in AllStages |-> CHOOSE k \in 1..Len(Stages) : Stages[k] = s]

StageNo(s) == StageIndex[s]

\* NextStage with the two sidecar stages exchanged.
NextStageSwapped(s) ==
    CASE s = "Cache" -> "SidecarYaml"
      [] s = "SidecarYaml" -> "SidecarJson"
      [] s = "SidecarJson" -> "AlbumYaml"
      [] OTHER -> "AlbumYaml"

\* The stage whose prompt follows stage s in resetAction.
NextStage(s) == Stages[StageNo(s) + 1]

-----------------------------------------------------------------------------
(* Names and paths *)

\* A file or directory name "base.ext" (or "base" when ext is empty).
Name(b, e) == [base |-> b, ext |-> e]

\* Byte order of the bases used; sort.Strings orders directory listings by it.
BaseOrder == <<"a", "b", "c", "m", "n", "t", "w", "x", "y", "z">>

BaseRank == [b \in {BaseOrder[k] : k \in 1..Len(BaseOrder)} |-> CHOOSE k \in 1..Len(BaseOrder) : BaseOrder[k] = b]

Rank(n) == BaseRank[n.base]

\* The directory below the root at each level of the initial tree.
DirNames == <<"x", "y", "z", "w">>

Roots == {"cache", "sidecar", "albums"}

\* conf.CachePath(), conf.SidecarPath(), conf.AlbumsPath()
CachePath == "cache"

SidecarPath == "sidecar"

AlbumsPath == "albums"

Path(r, rel) == [root |-> r, rel |-> rel]

NoPath == Path("-", <<>>)

Depth(p) == Len(p.rel)

Base(p) == p.rel[Len(p.rel)]

\* q lies strictly below p.
Below(p, q) ==
    /\ q.root = p.root
    /\ Len(q.rel) > Len(p.rel)
    /\ SubSeq(q.rel, 1, Len(p.rel)) = p.rel

Exists(f, p) == p \in DOMAIN f

IsDir(f, p) == Exists(f, p) /\ f[p] = "dir"

Children(f, d) == {p \in DOMAIN f : Below(d, p) /\ Depth(p) = Depth(d) + 1}

Descendants(f, d) == {p \in DOMAIN f : Below(d, p)}

\* The file names found at every populated level of a root.
RootFiles ==
    [r \in Roots |->
        CASE r = "cache" -> {Name("t", "jpg")}
          [] r = "sidecar" -> {Name("a", "json"), Name("b", "json"), Name("c", "txt"), Name("m", "yml")}
          [] r = "albums" -> {Name("c", "txt"), Name("m", "yml")}]

\* The directory chain x/y/... of length k.
DirChain(k) == [j \in 1..k |-> Name(DirNames[j], "")]

\* A directory that is named like an album file, and the file it holds.
AlbumDir == Path(AlbumsPath, <<Name("x", ""), Name("n", "yml")>>)

AlbumDirFile == Path(AlbumsPath, <<Name("x", ""), Name("n", "yml"), Name("c", "txt")>>)

\* The tree whose roots hold their files at each of the levels 0..top - 1,
\* with the directories leading to them; the bare roots when top = 0. From
\* top = 2 on, the albums path holds AlbumDir as well.
Layout(top) ==
    LET chain == {Path(r, DirChain(k)) : r \in Roots, k \in 0..(IF top = 0 THEN 0 ELSE top - 1)}
        dirs == chain \cup (IF top >= 2 THEN {AlbumDir} ELSE {})
        files == UNION {{Path(r, Append(DirChain(k), n)) : n \in RootFiles[r]} : r \in Roots, k \in 0..(top - 1)}
                 \cup (IF top >= 2 THEN {AlbumDirFile} ELSE {})
    IN  [p \in dirs \cup files |-> IF p \in dirs THEN "dir" ELSE "file"]

-----------------------------------------------------------------------------
(* filepath.Glob over the tree *)

\* filepath.Match of one pattern element of the suffixes used against a name:
\* "**" is two stars, each matching any run of non-separator characters;
\* "*.json" and "*.yml" match the names that end in that extension.
Match(pat, n) ==
    CASE pat = "**" -> TRUE
      [] pat = "*.json" -> n.ext = "json"
      [] pat = "*.yml" -> n.ext = "yml"

RECURSIVE SortPaths(_)
\* The paths of S (entries of one directory) in the order of sort.Strings.
SortPaths(S) ==
    IF S = {} THEN <<>>
    ELSE LET first == CHOOSE p \in S : \A q \in S : Rank(Base(p)) <= Rank(Base(q))
         IN  <<first>> \o SortPaths(S \ {first})

\* glob(dir, pattern): the entries of directory d whose name matches pat, sorted;
\* nothing when d is no directory.
GlobDir(f, d, pat) ==
    IF ~IsDir(f, d) THEN <<>>
    ELSE SortPaths({p \in Children(f, d) : Match(pat, Base(p))})

RECURSIVE GlobEach(_, _, _)
\* The loop of filepath.Glob over the matches ds of the directory part.
GlobEach(f, ds, pat) ==
    IF ds = <<>> THEN <<>>
    ELSE GlobDir(f, Head(ds), pat) \o GlobEach(f, Tail(ds), pat)

RECURSIVE GlobLevel(_, _, _, _)
\* filepath.Glob of root/suffix[1]/.../suffix[k]: the pattern is split at its
\* last separator, the directory part is globbed first, and each of its
\* matches is listed against the last element.
GlobLevel(f, r, suffix, k) ==
    IF k = 0 THEN <<Path(r, <<>>)>>
    ELSE GlobEach(f, GlobLevel(f, r, suffix, k - 1), suffix[k])

Glob(f, r, suffix) == GlobLevel(f, r, suffix, Len(suffix))

\* GlobRoot with the *.yml sidecar stage looking below the albums path.
GlobRootYamlInAlbums(s) ==
    CASE s = "Cache" -> CachePath
      [] s = "SidecarJson" -> SidecarPath
      [] s = "SidecarYaml" -> AlbumsPath
      [] s = "AlbumYaml" -> AlbumsPath

\* The root and the suffix each stage hands to filepath.Glob.
GlobRoot(s) ==
    CASE s = "Cache" -> CachePath
      [] s = "SidecarJson" -> SidecarPath
      [] s = "SidecarYaml" -> SidecarPath
      [] s = "AlbumYaml" -> AlbumsPath

GlobSuffix(s) ==
    CASE s = "Cache" -> <<"**">>
      [] s = "SidecarJson" -> <<"**", "*.json">>
      [] s = "SidecarYaml" -> <<"**", "*.yml">>
      [] s = "AlbumYaml" -> <<"**", "*.yml">>

-----------------------------------------------------------------------------
(* os.Remove and os.RemoveAll *)

Without(f, gone) == [p \in DOMAIN f \ gone |-> f[p]]

\* os.Remove can only succeed on a file or an empty directory.
CanRemove(f, p) == Exists(f, p) /\ Children(f, p) = {}

\* The trees a call of os.Remove(p) with result ok can leave.
OsRemove(f, p, ok) ==
    IF ok THEN {Without(f, {p})} ELSE {f}

\* A set of entries below p that can be gone with the rest still in place.
ClosedBelow(f, p) ==
    {R \in SUBSET Descendants(f, p) : \A q \in R : Descendants(f, q) \subseteq R}

\* The trees a call of os.RemoveAll(p) with result ok can leave: the whole
\* subtree is gone on success; on failure it removed what it could.
OsRemoveAll(f, p, ok) ==
    IF ok THEN {Without(f, {p} \cup Descendants(f, p))}
    ELSE {Without(f, R) : R \in ClosedBelow(f, p)}

\* Recursive with os.RemoveAll in every stage.
RecursiveAlways(s) == TRUE

\* Cache entries are removed with os.RemoveAll, the others with os.Remove.
Recursive(s) == s = "Cache"

-----------------------------------------------------------------------------
(* Events, results *)

Ev(kind, s, p, res) == [kind |-> kind, stage |-> s, path |-> p, res |-> res]

Running == [returned |-> FALSE, err |-> "none", stage |-> "-"]

Nil == [returned |-> TRUE, err |-> "none", stage |-> "-"]

Err(kind, s) == [returned |-> TRUE, err |-> kind, stage |-> s]

\* No earlier run of the command is on record.
NoRun ==
    [over |-> FALSE, events |-> <<>>, answers |-> <<>>, outcomes |-> <<>>,
     result |-> Running, fs |-> <<>>, db |-> <<>>, out |-> <<>>]

\* What promptui's Run can answer to a confirm prompt: "y" (err == nil),
\* anything else (ErrAbort), or an interrupt or end of input.
Answers == {"y", "n", "interrupt"}

\* Confirmed with only an explicit "no" taken as a refusal.
ConfirmedUnlessNo(ans) == ans # "n"

\* err == nil after Prompt.Run()
Confirmed(ans) == ans = "y"

\* What a prompt event records: the branch taken on the answer.
Taken(ans) == IF Confirmed(ans) THEN "yes" ELSE "no"

-----------------------------------------------------------------------------
(* The database collaborators, as far as the command relies on them *)

AdminPasswords == {"", "secret123"}

\* tables.Drop(conf.Db()): every table is gone, the accounts with them; a
\* failed drop leaves the tables in place.
Drop(d, ok) ==
    IF ok THEN [tables |-> "dropped", admin |-> "none"] ELSE d

\* entity.MigrateDb(true, false): the default schema on dropped tables; the
\* tables of an index that was not dropped stay as they are.
MigrateDb(d, ok) ==
    IF ok /\ d.tables = "dropped" THEN [d EXCEPT !.tables = "default"] ELSE d

\* entity.Admin.InitPassword(password)
InitPassword(d, password) == [d EXCEPT !.admin = password]

-----------------------------------------------------------------------------
(* The initial state: before resetAction is called *)

Init ==
    /\ pc = "start"
    /\ stage = "Index"
    /\ ctx \in [index : BOOLEAN, yes : BOOLEAN, trace : BOOLEAN]
    /\ conf \in [adminPassword : AdminPasswords, state : {"new"}]
    /\ \E top \in 0..(MaxDepth + 1) : fs = Layout(top)
    /\ fs0 = fs
    /\ db = [tables |-> "indexed", admin |-> "old"]
    /\ resetIndex = FALSE
    /\ matches = [s \in FileStages |-> <<>>]
    /\ i = 0
    /\ answer = "none"
    /\ events = <<>>
    /\ out = <<>>
    /\ logLevel = "info"
    /\ result = Running
    /\ run1 = NoRun

-----------------------------------------------------------------------------
(* Control flow of resetAction *)

\* return r, with the deferred conf.Shutdown()
Return(r) ==
    /\ pc' = "done"
    /\ result' = r
    /\ conf' = [conf EXCEPT !.state = "shutdown"]
    /\ UNCHANGED stage

\* on to the prompt of stage s
ToPrompt(s) ==
    /\ pc' = "prompt"
    /\ stage' = s
    /\ UNCHANGED <<result, conf>>

\* What resetAction does once file stage s is over: the next prompt, or
\* return nil after the last stage.
Leave(s) ==
    IF s = "AlbumYaml" THEN Return(Nil) ELSE ToPrompt(NextStage(s))

\* Keeping with a return after the refusal.
KeepingReturns(s) == Return(Nil)

\* Keeping with the prompt of the refused stage shown again.
KeepingAsksAgain(s) == ToPrompt(s)

\* The else branch of a file stage's prompt: "keeping ..." is logged and
\* resetAction goes on.
Keeping(s) == Leave(s)

\* Finish with the stage's failed removals handed up as an error.
FinishReturnsFailure(s) ==
    IF \E k \in DOMAIN events' :
        events'[k].kind = "remove" /\ events'[k].stage = s /\ events'[k].res = "fail"
    THEN Return(Err("remove", s))
    ELSE Leave(s)

\* The end of a removal loop: the summary is logged, the helper returns and
\* resetAction goes on.
Finish(s) == Leave(s)

\* IndexOnly without the test of the yes flag.
IndexOnlyIndexFlag(c) == c.index

\* IndexOnly without the test of the index flag.
IndexOnlyYesFlag(c) == c.yes

\* "Reset index only?": ctx.Bool("index") || ctx.Bool("yes")
IndexOnly(c) == c.index \/ c.yes

\* GlobErrorReturned with no stage handing its Glob error up.
GlobErrorReturnedNever(s) == FALSE

\* GlobErrorReturned with every stage handing its Glob error up.
GlobErrorReturnedAlways(s) == TRUE

\* Whether resetAction returns the error of a failed filepath.Glob of stage s:
\* resetAction does for the album files, the helpers log it and return.
GlobErrorReturned(s) == s = "AlbumYaml"

\* NextIndex with a break on the first failed removal.
NextIndexBreakOnError(k, n, ok) == IF ok THEN k + 1 ELSE n + 1

\* The position of the range loop over matches (of length n) after the
\* removal of element k ended with ok: the loop never leaves early.
NextIndex(k, n, ok) == k + 1

\* The progress character printed for one removal.
Mark(ok) == IF ok THEN "." ELSE "E"

\* InitFailed with the error of conf.Init() ignored.
InitFailedIgnored(ok) == FALSE

\* if err := conf.Init(); err != nil
InitFailed(ok) == ~ok

\* conf.Init() and what follows it up to the first prompt.
Bootstrap ==
    /\ pc = "start"
    /\ \E ok \in BOOLEAN :
        /\ events' = Append(events, Ev("init", "Start", NoPath, IF ok THEN "ok" ELSE "fail"))
        /\ IF ~InitFailed(ok)
           THEN /\ conf' = [conf EXCEPT !.state = "ready"]
                /\ logLevel' = IF ctx.trace THEN "trace" ELSE logLevel
                /\ pc' = "index"
                /\ UNCHANGED result
           ELSE /\ pc' = "done"
                /\ result' = Err("init", "Start")
                /\ UNCHANGED <<conf, logLevel>>
    /\ UNCHANGED <<stage, ctx, fs, fs0, run1, db, resetIndex, matches, i, answer, out>>

\* Forced with the yes flag ignored.
ForcedNever(c) == FALSE

\* Forced with the trace flag taken for a yes as well.
ForcedByTrace(c) == c.yes \/ c.trace

\* resetIndex := ctx.Bool("yes"): the index prompt is skipped and taken as
\* answered yes.
Forced(c) == c.yes

\* resetIndex := ctx.Bool("yes"); the prompt when it is false; "Reset index?"
IndexDecision ==
    /\ pc = "index"
    /\ IF Forced(ctx)
       THEN /\ resetIndex' = TRUE
            /\ UNCHANGED <<answer, events>>
       ELSE \E ans \in Answers :
            /\ answer' = ans
            /\ resetIndex' = Confirmed(ans)
            /\ events' = Append(events, Ev("prompt", "Index", NoPath, Taken(ans)))
    /\ pc' = IF resetIndex' THEN "drop" ELSE "index_only"
    /\ UNCHANGED <<stage, ctx, conf, fs, fs0, run1, db, matches, i, out, logLevel, result>>

\* resetIndexDb: tables.Drop(conf.Db()); its outcome is not looked at.
resetIndexDbDrop ==
    /\ pc = "drop"
    /\ \E ok \in BOOLEAN :
        /\ db' = Drop(db, ok)
        /\ events' = Append(events, Ev("drop", "Index", NoPath, IF ok THEN "ok" ELSE "fail"))
    /\ pc' = "migrate"
    /\ UNCHANGED <<stage, ctx, conf, fs, fs0, run1, resetIndex, matches, i, answer, out, logLevel, result>>

\* resetIndexDb: entity.MigrateDb(true, false); its outcome is not looked at.
resetIndexDbMigrate ==
    /\ pc = "migrate"
    /\ \E ok \in BOOLEAN :
        /\ db' = MigrateDb(db, ok)
        /\ events' = Append(events, Ev("migrate", "Index", NoPath, IF ok THEN "ok" ELSE "fail"))
    /\ pc' = "initpw"
    /\ UNCHANGED <<stage, ctx, conf, fs, fs0, run1, resetIndex, matches, i, answer, out, logLevel, result>>

\* RestorePassword without the test of the configured password.
RestorePasswordAlways(c) == TRUE

\* conf.AdminPassword() != ""
RestorePassword(c) == c.adminPassword # ""

\* resetIndexDb: the admin password, when one is configured.
resetIndexDbInitPassword ==
    /\ pc = "initpw"
    /\ IF RestorePassword(conf)
       THEN /\ db' = InitPassword(db, conf.adminPassword)
            /\ events' = Append(events, Ev("initpw", "Index", NoPath, "ok"))
       ELSE UNCHANGED <<db, events>>
    /\ pc' = "index_only"
    /\ UNCHANGED <<stage, ctx, conf, fs, fs0, run1, resetIndex, matches, i, answer, out, logLevel, result>>

\* "Reset index only?": return nil, or go on to the cache prompt.
ResetIndexOnly ==
    /\ pc = "index_only"
    /\ IF IndexOnly(ctx) THEN Return(Nil) ELSE ToPrompt("Cache")
    /\ UNCHANGED <<ctx, fs, fs0, run1, db, resetIndex, matches, i, answer, events, out, logLevel>>

\* The confirm prompt of file stage s and the branch on its answer.
Prompt(s) ==
    /\ pc = "prompt"
    /\ stage = s
    /\ \E ans \in Answers :
        /\ answer' = ans
        /\ events' = Append(events, Ev("prompt", s, NoPath, Taken(ans)))
        /\ IF Confirmed(ans)
           THEN /\ pc' = "glob"
                /\ UNCHANGED <<stage, result, conf>>
           ELSE Keeping(s)
    /\ UNCHANGED <<ctx, fs, fs0, run1, db, resetIndex, matches, i, out, logLevel>>

\* filepath.Glob of stage s and the branches on its error and on len(matches).
Enumerate(s) ==
    /\ pc = "glob"
    /\ stage = s
    /\ \E ok \in BOOLEAN :
        IF ~ok
        THEN /\ events' = Append(events, Ev("glob", s, NoPath, "fail"))
             /\ IF GlobErrorReturned(s) THEN Return(Err("glob", s)) ELSE Leave(s)
             /\ UNCHANGED <<matches, i>>
        ELSE LET found == Glob(fs, GlobRoot(s), GlobSuffix(s)) IN
             /\ events' = Append(events, Ev("glob", s, NoPath, "ok"))
             /\ matches' = [matches EXCEPT ![s] = found]
             /\ IF Len(found) > 0
                THEN /\ pc' = "remove"
                     /\ i' = 1
                     /\ UNCHANGED <<stage, result, conf>>
                ELSE /\ Leave(s)
                     /\ UNCHANGED i
    /\ UNCHANGED <<ctx, fs, fs0, run1, db, resetIndex, answer, out, logLevel>>

\* One round of the range loop over matches of stage s: the removal, the
\* progress character, and after the last element the newline and what
\* follows the stage.
RemoveMatch(s) ==
    /\ pc = "remove"
    /\ stage = s
    /\ LET name == matches[s][i]
           n == Len(matches[s])
       IN  \E ok \in BOOLEAN :
            /\ (ok /\ ~Recursive(s)) => CanRemove(fs, name)
            /\ fs' \in (IF Recursive(s) THEN OsRemoveAll(fs, name, ok) ELSE OsRemove(fs, name, ok))
            /\ events' = Append(events, Ev("remove", s, name, IF ok THEN "ok" ELSE "fail"))
            /\ i' = NextIndex(i, n, ok)
            /\ IF i' <= n
               THEN /\ out' = Append(out, Mark(ok))
                    /\ UNCHANGED <<pc, stage, result, conf>>
               ELSE /\ out' = out \o <<Mark(ok), "\n">>
                    /\ Finish(s)
    /\ UNCHANGED <<ctx, fs0, run1, db, resetIndex, matches, answer, logLevel>>

\* resetAction: the cache prompt
CachePrompt == Prompt("Cache")

\* resetCache
resetCacheGlob == Enumerate("Cache")

resetCacheRemove == RemoveMatch("Cache")

\* resetAction: the *.json sidecar prompt
SidecarJsonPrompt == Prompt("SidecarJson")

\* resetSidecarJson
resetSidecarJsonGlob == Enumerate("SidecarJson")

resetSidecarJsonRemove == RemoveMatch("SidecarJson")

\* resetAction: the *.yml metadata prompt
SidecarYamlPrompt == Prompt("SidecarYaml")

\* resetSidecarYaml
resetSidecarYamlGlob == Enumerate("SidecarYaml")

resetSidecarYamlRemove == RemoveMatch("SidecarYaml")

\* resetAction: the *.yml album prompt, the Glob and the loop
AlbumYamlPrompt == Prompt("AlbumYaml")

AlbumYamlGlob == Enumerate("AlbumYaml")

AlbumYamlRemove == RemoveMatch("AlbumYaml")

Next ==
    \/ Bootstrap
    \/ IndexDecision
    \/ resetIndexDbDrop
    \/ resetIndexDbMigrate
    \/ resetIndexDbInitPassword
    \/ ResetIndexOnly
    \/ CachePrompt
    \/ resetCacheGlob
    \/ resetCacheRemove
    \/ SidecarJsonPrompt
    \/ resetSidecarJsonGlob
    \/ resetSidecarJsonRemove
    \/ SidecarYamlPrompt
    \/ resetSidecarYamlGlob
    \/ resetSidecarYamlRemove
    \/ AlbumYamlPrompt
    \/ AlbumYamlGlob
    \/ AlbumYamlRemove

Spec == Init /\ [][Next]_vars

-----------------------------------------------------------------------------
(* What a run did, read from its events *)

\* The events in which a stage does its work (all but the prompts).
Work == {"drop", "migrate", "initpw", "glob", "remove"}

\* The events with which the work of a stage begins.
Starts == {"drop", "glob"}

Prompted(s) == \E k \in DOMAIN events : events[k].kind = "prompt" /\ events[k].stage = s

Acted(s) == \E k \in DOMAIN events : events[k].stage = s /\ events[k].kind \in Work

Accepted(s) ==
    \E k \in DOMAIN events :
        events[k].kind = "prompt" /\ events[k].stage = s /\ events[k].res = "yes"

Declined(s) ==
    \E k \in DOMAIN events :
        events[k].kind = "prompt" /\ events[k].stage = s /\ events[k].res = "no"

Happened(kind, s, res) ==
    \E k \in DOMAIN events : events[k].kind = kind /\ events[k].stage = s /\ events[k].res = res

Removals(s) == SelectSeq(events, LAMBDA e : e.kind = "remove" /\ e.stage = s)

AllPrompts == SelectSeq(events, LAMBDA e : e.kind = "prompt")

BootstrapOk == Happened("init", "Start", "ok")

BootstrapFailed == Happened("init", "Start", "fail")

Done == pc = "done"

\* Stage s lies behind the run.
Over(s) == Done \/ StageNo(stage) > StageNo(s)

-----------------------------------------------------------------------------
(* C1 *)

\* C1: in every run the events of the stages come in the order Index, Cache,
\* SidecarJson, SidecarYaml, AlbumYaml (each event's stage is at or after the
\* stage of the event before it, and only the bootstrap, the first event,
\* belongs to no stage): nothing of a later stage happens before something of
\* an earlier one; a prompt is the first event of its stage, so every stage is
\* prompted at most once and before its work; and every stage's work is
\* started (the drop, the Glob) at most once.
C1_StagesInOrder ==
    /\ \A k \in DOMAIN events : events[k].stage \in AllStages <=> k > 1
    /\ \A k \in 2..(Len(events) - 1) :
        StageNo(events[k].stage) <= StageNo(events[k + 1].stage)
    /\ \A k \in DOMAIN events :
        events[k].kind = "prompt" =>
            \A j \in 1..(k - 1) : events[j].stage # events[k].stage
    /\ \A k \in DOMAIN events :
        events[k].kind \in Starts =>
            \A j \in 1..(k - 1) :
                events[j].kind \in Starts => events[j].stage # events[k].stage

\* C1 witness: a finished run in which all five stages were prompted and ran,
\* each file stage with a removal.
C1_Witness ==
    /\ Done
    /\ result = Nil
    /\ \A s \in AllStages : Prompted(s) /\ Acted(s)
    /\ \A s \in FileStages : Len(Removals(s)) > 0

-----------------------------------------------------------------------------
(* C2 *)

\* C2: a stage whose prompt got anything but an explicit yes (a no, or an
\* interrupt) does no work, whatever the other stages did: it is recorded as
\* refused, it has no Glob and no removal (no drop, migration or password for
\* the index), nothing was matched for it, every path its pattern matched when
\* the command started still exists when the run ends (no step creates a
\* path), and a refused index stage leaves the database as it was.
C2_DeclinedStageDoesNothing ==
    /\ (answer \in {"n", "interrupt"}) =>
        \E k \in DOMAIN events :
            /\ events[k].kind = "prompt"
            /\ events[k].res = "no"
            /\ \A j \in (k + 1)..Len(events) : events[j].kind # "prompt"
    /\ \A s \in AllStages :
        Declined(s) => /\ ~Accepted(s)
                       /\ ~Acted(s)
                       /\ s \in FileStages => matches[s] = <<>>
                       /\ (s \in FileStages /\ Done /\ \E p \in DOMAIN fs0 : p.root = GlobRoot(s) /\ ~Exists(fs, p)) =>
                            LET mine == Glob(fs0, GlobRoot(s), GlobSuffix(s))
                            IN  \A k \in DOMAIN mine : Exists(fs, mine[k])
                       /\ s = "Index" => db = [tables |-> "indexed", admin |-> "old"]
    /\ (\A s \in FileStages : Prompted(s) => Declined(s)) => fs = fs0

\* C2 witness: a finished run with the index and the *.json sidecar stage
\* refused, the last prompt ended by an interrupt, and removals done by the
\* cache and the *.yml sidecar stage.
C2_Witness ==
    /\ Done
    /\ Declined("Index")
    /\ Declined("SidecarJson")
    /\ Declined("AlbumYaml")
    /\ answer = "interrupt"
    /\ Happened("remove", "Cache", "ok")
    /\ Happened("remove", "SidecarYaml", "ok")

-----------------------------------------------------------------------------
(* C3 *)

\* C3: with --yes, with or without --index, no file stage is prompted, nothing
\* is enumerated or removed, the run never stands in a file stage, and once
\* the bootstrap succeeded the run ends with nil right after the index stage.
C3_YesEndsAfterIndex ==
    ctx.yes =>
        /\ \A s \in FileStages : ~Prompted(s) /\ ~Acted(s) /\ matches[s] = <<>>
        /\ fs = fs0
        /\ out = <<>>
        /\ pc \notin {"prompt", "glob", "remove"}
        /\ (Done /\ BootstrapOk) =>
            /\ result = Nil
            /\ Acted("Index")
            /\ events[Len(events)].stage = "Index"

\* C3 witness: a finished run with --yes and without --index whose schema
\* reset went through.
C3_Witness ==
    /\ ctx.yes
    /\ ~ctx.index
    /\ Done
    /\ result = Nil
    /\ db.tables = "default"

-----------------------------------------------------------------------------
(* C4 *)

\* C4: with --index and without --yes the only prompt ever shown is the index
\* prompt, the schema reset runs only after a yes to it, no file stage is
\* prompted or removes anything, and once the bootstrap succeeded the run ends
\* with nil after exactly that one prompt.
C4_IndexOnlyPromptsOnce ==
    (ctx.index /\ ~ctx.yes) =>
        /\ Len(AllPrompts) <= 1
        /\ \A s \in FileStages : ~Prompted(s) /\ ~Acted(s)
        /\ fs = fs0
        /\ Acted("Index") => Accepted("Index")
        /\ pc \notin {"prompt", "glob", "remove"}
        /\ (Done /\ BootstrapOk) =>
            /\ result = Nil
            /\ Len(AllPrompts) = 1
            /\ Prompted("Index")

\* C4 witness: a finished run with --index alone in which the index prompt
\* was answered yes and the schema was reset.
C4_Witness ==
    /\ ctx.index
    /\ ~ctx.yes
    /\ Done
    /\ result = Nil
    /\ Accepted("Index")
    /\ Happened("drop", "Index", "ok")

-----------------------------------------------------------------------------
(* C5 *)

\* C5: a failed table drop or migration ends the command at once: nothing
\* happens after it (no further schema step, no later prompt or stage) and
\* resetAction has returned an error.
C5_SchemaFailureIsFatal ==
    \A k \in DOMAIN events :
        (events[k].kind \in {"drop", "migrate"} /\ events[k].res = "fail") =>
            /\ k = Len(events)
            /\ Done
            /\ result.returned
            /\ result.err # "none"

-----------------------------------------------------------------------------
(* C6 *)

Marks(c) == Len(SelectSeq(out, LAMBDA x : x = c))

RemovalsWith(res) == Len(SelectSeq(events, LAMBDA e : e.kind = "remove" /\ e.res = res))

\* C6: in every file stage the removals attempted so far are the first
\* elements of its MatchSet, in order, one attempt each; a stage that is over
\* has attempted every element of its MatchSet, whichever attempts failed; and
\* the successes and failures printed add up to the attempts.
C6_EveryMatchAttemptedOnce ==
    /\ \A s \in FileStages :
        LET tried == Removals(s) IN
        /\ Len(tried) <= Len(matches[s])
        /\ \A k \in DOMAIN tried : tried[k].path = matches[s][k]
        /\ \A j, k \in DOMAIN matches[s] : j # k => matches[s][j] # matches[s][k]
        /\ (pc = "remove" /\ stage = s) => Len(tried) = i - 1
        /\ Over(s) => Len(tried) = Len(matches[s])
    /\ Marks(".") = RemovalsWith("ok")
    /\ Marks("E") = RemovalsWith("fail")
    /\ Marks(".") + Marks("E") = Len(SelectSeq(events, LAMBDA e : e.kind = "remove"))

\* C6 witness: the cache and the *.json sidecar stage are over, each with two
\* matches of which the first removal failed and the second succeeded.
C6_Witness ==
    \A s \in {"Cache", "SidecarJson"} :
        /\ Over(s)
        /\ Len(matches[s]) = 2
        /\ Len(Removals(s)) = 2
        /\ Removals(s)[1].res = "fail"
        /\ Removals(s)[2].res = "ok"

-----------------------------------------------------------------------------
(* C7 *)

\* C7: without --index and --yes, every stage that lies behind the run was
\* prompted and did its work exactly when its own prompt was answered yes,
\* whatever the other answers were; so a finished run has shown all prompts.
C7_DeclineNeverAborts ==
    (~ctx.index /\ ~ctx.yes /\ BootstrapOk) =>
        \A s \in AllStages :
            Over(s) => /\ Prompted(s)
                       /\ Acted(s) <=> Accepted(s)

\* C7 witness: a finished run in which the index, cache and *.yml sidecar
\* prompts were refused and the *.json sidecar and album stages removed files.
C7_Witness ==
    /\ Done
    /\ Declined("Index")
    /\ Declined("Cache")
    /\ Declined("SidecarYaml")
    /\ Happened("remove", "SidecarJson", "ok")
    /\ Happened("remove", "AlbumYaml", "ok")

-----------------------------------------------------------------------------
(* C8 *)

\* C8: a file stage that went through its MatchSet with failed removals is
\* followed by the next stage's prompt (by return nil after the last stage);
\* no removal failure is ever returned, and a run that gets to the end of
\* resetAction returns nil.
C8_RemovalFailuresNotEscalated ==
    /\ \A s \in FileStages :
        (Happened("remove", s, "fail") /\ Len(Removals(s)) = Len(matches[s])) =>
            IF s = "AlbumYaml"
            THEN Done /\ result = Nil
            ELSE (pc = "prompt" /\ stage = NextStage(s)) \/ Prompted(NextStage(s))
    /\ result.err \in {"none", "init", "glob"}
    /\ (Done /\ BootstrapOk /\ ~Happened("glob", "AlbumYaml", "fail")) => result = Nil

\* C8 witness: a run that returned nil with failed removals in the cache, the
\* *.json sidecar and the album stage.
C8_Witness ==
    /\ Done
    /\ result = Nil
    /\ Happened("remove", "Cache", "fail")
    /\ Happened("remove", "SidecarJson", "fail")
    /\ Happened("remove", "AlbumYaml", "fail")
    /\ Prompted("SidecarYaml")

-----------------------------------------------------------------------------
(* C9 *)

\* C9: a finished run has returned an error exactly when the bootstrap, the
\* table drop or the migration failed.
C9_ErrorIffBootstrapOrSchemaFailed ==
    Done =>
        (result.err # "none" <=>
            \/ BootstrapFailed
            \/ Happened("drop", "Index", "fail")
            \/ Happened("migrate", "Index", "fail"))

-----------------------------------------------------------------------------
(* C10 *)

\* C10: a failed enumeration in the cache, *.json or *.yml sidecar stage
\* touches that stage only: the stage attempts no removal, its error is not
\* what resetAction returns, the next prompt follows, and a finished run has
\* shown the prompts of all later stages.
C10_EnumerationFailureIsLocal ==
    \A s \in {"Cache", "SidecarJson", "SidecarYaml"} :
        Happened("glob", s, "fail") =>
            /\ Removals(s) = <<>>
            /\ matches[s] = <<>>
            /\ ~(result.err = "glob" /\ result.stage = s)
            /\ (pc = "prompt" /\ stage = NextStage(s)) \/ Prompted(NextStage(s))
            /\ Done => \A t \in FileStages : StageNo(t) > StageNo(s) => Prompted(t)

\* C10 witness: a run that returned nil although the enumeration failed in
\* the cache and in both sidecar stages, and whose album stage removed a file.
C10_Witness ==
    /\ Done
    /\ result = Nil
    /\ Happened("glob", "Cache", "fail")
    /\ Happened("glob", "SidecarJson", "fail")
    /\ Happened("glob", "SidecarYaml", "fail")
    /\ Happened("remove", "AlbumYaml", "ok")

-----------------------------------------------------------------------------
(* C11 *)

Range(seq) == {seq[k] : k \in DOMAIN seq}

\* The extension a file stage is after.
StageExt(s) == IF s = "SidecarJson" THEN "json" ELSE "yml"

\* The files with extension ext at any depth below root r.
FilesWithExt(f, r, ext) ==
    {p \in DOMAIN f : p.root = r /\ Depth(p) >= 1 /\ f[p] = "file" /\ Base(p).ext = ext}

\* The run has just enumerated stage s without an error: matches[s] is the
\* result of Glob over the tree as it is now.
JustEnumerated(s) ==
    /\ events # <<>>
    /\ events[Len(events)] = Ev("glob", s, NoPath, "ok")

\* C11: the MatchSet that the *.json sidecar, *.yml sidecar and album stages
\* get from a successful enumeration is exactly the set of files with the
\* stage's extension at any depth below the stage's root, depth 0 included.
C11_EnumerationIsRecursive ==
    \A s \in {"SidecarJson", "SidecarYaml", "AlbumYaml"} :
        JustEnumerated(s) =>
            Range(matches[s]) = FilesWithExt(fs, GlobRoot(s), StageExt(s))

-----------------------------------------------------------------------------
(* The pattern regexp.QuoteMeta(root) + suffix, character by character *)

\* Longest name, in characters, of the directory a root path ends in.
MaxNameLen == 2

\* The characters of a name, in byte order: the metacharacters of a glob
\* pattern, those of a regular expression only, and plain ones.
Chars == <<"$", "(", ")", "*", "+", "-", ".", "?", "[", "\\", "]", "^", "a", "b", "{", "|", "}">>

CharSet == {Chars[k] : k \in 1..Len(Chars)}

Code == [c \in CharSet |-> CHOOSE k \in 1..Len(Chars) : Chars[k] = c]

\* The names of 1..n characters over the characters of S; "." and ".." name
\* no directory entry.
NamesOver(S, n) ==
    UNION {[1..k -> S] : k \in 1..n} \ {<<".">>, <<".", ".">>}

\* regexp.QuoteMeta: a backslash before each of \.+*?()|[]{}^$
Special == {"\\", ".", "+", "*", "?", "(", ")", "|", "[", "]", "{", "}", "^", "$"}

\* QuoteMeta without any quoting.
QuoteNothing(s) == s

RECURSIVE QuoteMeta(_)
QuoteMeta(s) ==
    IF s = <<>> THEN <<>>
    ELSE (IF Head(s) \in Special THEN <<"\\", Head(s)>> ELSE <<Head(s)>>) \o QuoteMeta(Tail(s))

\* hasMeta of path/filepath (not Windows): the pattern holds one of * ? [ \
hasMeta(pat) == \E k \in DOMAIN pat : pat[k] \in {"*", "?", "[", "\\"}

BadClass == [ok |-> FALSE, r |-> 0, ranges |-> {}, rest |-> <<>>]

\* getEsc of path/filepath: one, possibly escaped, character of a class.
getEsc(chunk) ==
    IF chunk = <<>> \/ chunk[1] \in {"-", "]"} THEN BadClass
    ELSE LET c == IF chunk[1] = "\\" THEN Tail(chunk) ELSE chunk IN
         IF c = <<>> \/ Tail(c) = <<>> THEN BadClass
         ELSE [ok |-> TRUE, r |-> Code[c[1]], ranges |-> {}, rest |-> Tail(c)]

RECURSIVE ClassRanges(_, _)
\* The loop of matchChunk over the ranges of a class, up to its "]".
ClassRanges(chunk, ranges) ==
    IF chunk # <<>> /\ chunk[1] = "]" /\ ranges # {}
    THEN [ok |-> TRUE, r |-> 0, ranges |-> ranges, rest |-> Tail(chunk)]
    ELSE LET lo == getEsc(chunk) IN
         IF ~lo.ok THEN BadClass
         ELSE IF lo.rest[1] = "-"
              THEN LET hi == getEsc(Tail(lo.rest)) IN
                   IF ~hi.ok THEN BadClass
                   ELSE ClassRanges(hi.rest, ranges \cup {<<lo.r, hi.r>>})
              ELSE ClassRanges(lo.rest, ranges \cup {<<lo.r, lo.r>>})

\* The character class a pattern starts with: "[", an optional "^", ranges, "]".
Class(pat) ==
    LET c == Tail(pat)
        neg == c # <<>> /\ c[1] = "^"
        body == ClassRanges(IF neg THEN Tail(c) ELSE c, {})
    IN  [ok |-> body.ok, negated |-> neg, ranges |-> body.ranges, rest |-> body.rest]

RECURSIVE WellFormed(_)
\* The pattern is one filepath.Match does not answer with ErrBadPattern.
WellFormed(pat) ==
    IF pat = <<>> THEN TRUE
    ELSE CASE pat[1] = "\\" -> Len(pat) >= 2 /\ WellFormed(Tail(Tail(pat)))
           [] pat[1] = "[" -> Class(pat).ok /\ WellFormed(Class(pat).rest)
           [] OTHER -> WellFormed(Tail(pat))

RECURSIVE Matches(_, _)
\* filepath.Match of a well-formed pattern against a name without separator.
Matches(pat, name) ==
    IF pat = <<>> THEN name = <<>>
    ELSE CASE pat[1] = "*" ->
                Matches(Tail(pat), name) \/ (name # <<>> /\ Matches(pat, Tail(name)))
           [] pat[1] = "?" ->
                name # <<>> /\ Matches(Tail(pat), Tail(name))
           [] pat[1] = "\\" ->
                name # <<>> /\ name[1] = pat[2] /\ Matches(Tail(Tail(pat)), Tail(name))
           [] pat[1] = "[" ->
                LET c == Class(pat) IN
                /\ name # <<>>
                /\ (\E rg \in c.ranges : rg[1] <= Code[name[1]] /\ Code[name[1]] <= rg[2]) # c.negated
                /\ Matches(c.rest, Tail(name))
           [] OTHER ->
                name # <<>> /\ name[1] = pat[1] /\ Matches(Tail(pat), Tail(name))

\* The names in the directory that holds the roots.
TopNames(f) == {p.root : p \in DOMAIN f}

RECURSIVE Before(_, _)
\* a sorts before b (or is b) in sort.Strings.
Before(a, b) ==
    IF a = <<>> THEN TRUE
    ELSE IF b = <<>> THEN FALSE
    ELSE IF a[1] = b[1] THEN Before(Tail(a), Tail(b))
    ELSE Code[a[1]] < Code[b[1]]

RECURSIVE SortNames(_)
SortNames(S) ==
    IF S = {} THEN <<>>
    ELSE LET first == CHOOSE a \in S : \A b \in S : Before(a, b)
         IN  <<first>> \o SortNames(S \ {first})

\* filepath.Glob of the directory part of the pattern, the quoted root: a
\* pattern without metacharacter is taken as the path it spells; otherwise
\* the names of the directory above are matched against it.
GlobQuotedRoot(f, quoted) ==
    IF ~hasMeta(quoted) THEN [err |-> FALSE, dirs |-> <<Path(quoted, <<>>)>>]
    ELSE IF ~WellFormed(quoted) THEN [err |-> TRUE, dirs |-> <<>>]
    ELSE LET names == SortNames({n \in TopNames(f) : Matches(quoted, n)})
         IN  [err |-> FALSE, dirs |-> [k \in DOMAIN names |-> Path(names[k], <<>>)]]

RECURSIVE GlobFrom(_, _, _, _)
\* GlobLevel from the directories ds that the directory part matched.
GlobFrom(f, ds, suffix, k) ==
    IF k = 0 THEN ds
    ELSE GlobEach(f, GlobFrom(f, ds, suffix, k - 1), suffix[k])

\* filepath.Glob(quoted + suffix)
GlobQuoted(f, quoted, suffix) ==
    LET top == GlobQuotedRoot(f, quoted) IN
    IF top.err THEN [err |-> TRUE, matches |-> <<>>]
    ELSE [err |-> FALSE, matches |-> GlobFrom(f, top.dirs, suffix, Len(suffix))]

\* What every directory next to the root, and the root, holds.
Contents == {<<Name("t", "jpg")>>, <<Name("x", "")>>, <<Name("x", ""), Name("a", "json")>>, <<Name("x", ""), Name("m", "yml")>>}

\* The tree around root n: next to n lie the directories "a" and "b" and
\* those of every other name of up to MaxNameLen of n's characters.
Disk(n) ==
    LET tops == {<<"a">>, <<"b">>} \cup NamesOver(Range(n), MaxNameLen)
        dirs == {Path(d, <<>>) : d \in tops} \cup {Path(d, <<Name("x", "")>>) : d \in tops}
        all == dirs \cup {Path(d, rel) : d \in tops, rel \in Contents}
    IN  [p \in all |-> IF p \in dirs THEN "dir" ELSE "file"]

\* A command that is about to enumerate one of its file stages, with the
\* root path of that stage spelled n.
QuoteInit ==
    /\ pc = "glob"
    /\ stage \in FileStages
    /\ ctx = [index |-> FALSE, yes |-> FALSE, trace |-> FALSE]
    /\ \E n \in NamesOver(CharSet, MaxNameLen) :
        /\ conf = [adminPassword |-> "", state |-> "ready", path |-> n]
        /\ fs = Disk(n)
    /\ fs0 = fs
    /\ db = [tables |-> "indexed", admin |-> "old"]
    /\ resetIndex = FALSE
    /\ matches = [s \in FileStages |-> <<>>]
    /\ i = 0
    /\ answer = "y"
    /\ events = <<>>
    /\ out = <<>>
    /\ logLevel = "info"
    /\ result = Running
    /\ run1 = NoRun

\* matches, err := filepath.Glob(regexp.QuoteMeta(path) + suffix) of the stage
EnumerateQuoted ==
    /\ pc = "glob"
    /\ LET got == GlobQuoted(fs, QuoteMeta(conf.path), GlobSuffix(stage)) IN
        /\ events' = Append(events, Ev("glob", stage, NoPath, IF got.err THEN "fail" ELSE "ok"))
        /\ matches' = [matches EXCEPT ![stage] = got.matches]
    /\ pc' = "done"
    /\ UNCHANGED <<stage, ctx, conf, fs, fs0, run1, db, resetIndex, i, answer, out, logLevel, result>>

QuoteNext == EnumerateQuoted

QuoteSpec == QuoteInit /\ [][QuoteNext]_vars

-----------------------------------------------------------------------------
(* C12 *)

-----------------------------------------------------------------------------
(* C13 *)

\* The steps of the schema reset done so far, in order.
SchemaSteps == SelectSeq(events, LAMBDA e : e.kind \in {"drop", "migrate", "initpw"})

\* resetIndexDb was called and has returned.
SchemaResetOver == Happened("migrate", "Index", "ok") \/ Happened("migrate", "Index", "fail")

\* C13: the steps of a schema reset are the drop, then the migration, then
\* the admin password, each at most once and all in the index stage; the
\* password step is done exactly when the configured admin password is not
\* empty, and once resetIndexDb has returned with a password configured the
\* administrator's credential is that password.
C13_SchemaResetSteps ==
    /\ \A k \in DOMAIN SchemaSteps :
        /\ k <= 3
        /\ SchemaSteps[k].kind = <<"drop", "migrate", "initpw">>[k]
        /\ SchemaSteps[k].stage = "Index"
    /\ Happened("initpw", "Index", "ok") => conf.adminPassword # ""
    /\ (SchemaResetOver /\ pc # "initpw") =>
        /\ Happened("initpw", "Index", "ok") <=> conf.adminPassword # ""
        /\ Len(SchemaSteps) = IF conf.adminPassword # "" THEN 3 ELSE 2
        /\ conf.adminPassword # "" => db.admin = conf.adminPassword

\* C13 witness: a schema reset with the password "secret123" configured is
\* over: the tables were dropped, the default schema is in place and the
\* administrator has that password.
C13_Witness ==
    /\ SchemaResetOver
    /\ pc # "initpw"
    /\ conf.adminPassword = "secret123"
    /\ Happened("drop", "Index", "ok")
    /\ db = [tables |-> "default", admin |-> "secret123"]

-----------------------------------------------------------------------------
(* C14 *)

Count(kind) == Len(SelectSeq(events, LAMBDA e : e.kind = kind))

\* C14: with --yes no prompt is ever shown, by any stage; the index decision
\* is yes without an answer from anyone; the tables are dropped and migrated
\* at most once, and exactly once in a run that got past the bootstrap and
\* has ended.
C14_YesForcesIndexSilently ==
    ctx.yes =>
        /\ AllPrompts = <<>>
        /\ answer = "none"
        /\ pc \notin {"start", "index"} => (BootstrapFailed \/ resetIndex)
        /\ Count("drop") <= 1
        /\ Count("migrate") <= 1
        /\ (Done /\ BootstrapOk) => (Count("drop") = 1 /\ Count("migrate") = 1)

\* C14 witness: a run with --yes and --index has ended with nil: nothing was
\* asked and the schema was reset.
C14_Witness ==
    /\ ctx.yes
    /\ ctx.index
    /\ Done
    /\ result = Nil
    /\ AllPrompts = <<>>
    /\ Happened("drop", "Index", "ok")
    /\ Happened("migrate", "Index", "ok")

-----------------------------------------------------------------------------
(* Two runs of the command, one after the other, that differ in --trace *)

\* What the prompts of a run answered, in order.
AnswersOf(evs) ==
    LET asked == SelectSeq(evs, LAMBDA e : e.kind = "prompt")
    IN  [k \in DOMAIN asked |-> asked[k].res]

\* How the collaborator calls of a run ended, in order.
OutcomesOf(evs) ==
    LET called == SelectSeq(evs, LAMBDA e : e.kind # "prompt")
    IN  [k \in DOMAIN called |-> called[k].res]

\* What is left of p and of the tree below it.
Under(f, p) == {q \in DOMAIN f : q = p \/ Below(p, q)}

\* The run gets what the earlier run got: its k-th prompt the earlier run's
\* k-th answer, its k-th collaborator call the outcome of the earlier run's
\* k-th call (as far as that run went), and a removal leaves of its path what
\* the earlier one left. Every step records at most one event, so this is
\* said of the last event.
SameInputs ==
    \/ ~run1.over
    \/ events = <<>>
    \/ LET e == events[Len(events)]
           n == Cardinality({k \in DOMAIN events : (events[k].kind = "prompt") = (e.kind = "prompt")})
           given == IF e.kind = "prompt" THEN run1.answers ELSE run1.outcomes
       IN  /\ n <= Len(given) => e.res = given[n]
           /\ e.kind = "remove" => Under(fs, e.path) = Under(run1.fs, e.path)

\* The command has returned and is started again on the same system as
\* before, with the same flags but for --trace, which is now the opposite.
Rerun ==
    /\ pc = "done"
    /\ ~run1.over
    /\ run1' = [over |-> TRUE, events |-> events, answers |-> AnswersOf(events), outcomes |-> OutcomesOf(events),
                 result |-> result, fs |-> fs, db |-> db, out |-> out]
    /\ ctx' = [ctx EXCEPT !.trace = ~ctx.trace]
    /\ conf' = [conf EXCEPT !.state = "new"]
    /\ pc' = "start"
    /\ stage' = "Index"
    /\ fs' = fs0
    /\ db' = [tables |-> "indexed", admin |-> "old"]
    /\ resetIndex' = FALSE
    /\ matches' = [s \in FileStages |-> <<>>]
    /\ i' = 0
    /\ answer' = "none"
    /\ events' = <<>>
    /\ out' = <<>>
    /\ logLevel' = "info"
    /\ result' = Running
    /\ UNCHANGED fs0

\* The first run: without --trace, on a tree with files down to level
\* MaxDepth - 1 at most.
TwinInit == Init /\ ~ctx.trace /\ \E top \in 0..MaxDepth : fs = Layout(top)

\* The steps of resetAction, the second run's with the first run's inputs, and
\* the restart between the two.
TwinNext ==
    \/ Bootstrap /\ SameInputs'
    \/ IndexDecision /\ SameInputs'
    \/ resetIndexDbDrop /\ SameInputs'
    \/ resetIndexDbMigrate /\ SameInputs'
    \/ resetIndexDbInitPassword /\ SameInputs'
    \/ ResetIndexOnly /\ SameInputs'
    \/ CachePrompt /\ SameInputs'
    \/ resetCacheGlob /\ SameInputs'
    \/ resetCacheRemove /\ SameInputs'
    \/ SidecarJsonPrompt /\ SameInputs'
    \/ resetSidecarJsonGlob /\ SameInputs'
    \/ resetSidecarJsonRemove /\ SameInputs'
    \/ SidecarYamlPrompt /\ SameInputs'
    \/ resetSidecarYamlGlob /\ SameInputs'
    \/ resetSidecarYamlRemove /\ SameInputs'
    \/ AlbumYamlPrompt /\ SameInputs'
    \/ AlbumYamlGlob /\ SameInputs'
    \/ AlbumYamlRemove /\ SameInputs'
    \/ Rerun

TwinSpec == TwinInit /\ [][TwinNext]_vars

-----------------------------------------------------------------------------
(* C15 *)

\* C15: a run with --trace that gets the answers and the outcomes of a run
\* without it (all else equal) does what that run did, step by step: the
\* same prompts, database steps, enumerations and removals of the same paths
\* in the same order; and when it has returned, it has done all of them,
\* returned the same result, printed the same progress and left the same
\* files and the same database. The log level is what differs.
C15_TraceChangesLogLevelOnly ==
    run1.over =>
        /\ ctx.trace
        /\ Len(events) <= Len(run1.events)
        /\ \A k \in DOMAIN events : events[k] = run1.events[k]
        /\ Done =>
            /\ events = run1.events
            /\ result = run1.result
            /\ out = run1.out
            /\ fs = run1.fs
            /\ db = run1.db
        /\ (pc \notin {"start", "done"} \/ (Done /\ BootstrapOk)) => logLevel = "trace"

\* C15 witness: the second run, with --trace, has ended like the first: all
\* five prompts, a schema reset, and removals of which one failed.
C15_Witness ==
    /\ run1.over
    /\ Done
    /\ logLevel = "trace"
    /\ events = run1.events
    /\ Len(AllPrompts) = 5
    /\ Happened("drop", "Index", "ok")
    /\ Happened("remove", "Cache", "fail")
    /\ Happened("remove", "AlbumYaml", "ok")

-----------------------------------------------------------------------------
(* C16 *)

\* C16: a failed enumeration of the album stage ends the command: it is the
\* last thing the run did, resetAction has returned that error, the album
\* stage attempted no removal and every entry below the albums path is still
\* there. It is the only enumeration failure that is returned: one of the
\* cache or of a sidecar stage is never the result.
C16_AlbumEnumerationErrorReturned ==
    /\ Happened("glob", "AlbumYaml", "fail") =>
        /\ events[Len(events)] = Ev("glob", "AlbumYaml", NoPath, "fail")
        /\ Done
        /\ result = Err("glob", "AlbumYaml")
        /\ Removals("AlbumYaml") = <<>>
        /\ \A p \in DOMAIN fs0 : p.root = AlbumsPath => Exists(fs, p)
    /\ result.err = "glob" =>
        /\ result.stage = "AlbumYaml"
        /\ Happened("glob", "AlbumYaml", "fail")

\* C16 witness: the run returned the error of the album enumeration after a
\* *.yml sidecar enumeration had failed too and the cache had been cleared,
\* with *.yml album files in place.
C16_Witness ==
    /\ Done
    /\ result = Err("glob", "AlbumYaml")
    /\ Happened("glob", "SidecarYaml", "fail")
    /\ Happened("remove", "Cache", "ok")
    /\ Glob(fs, AlbumsPath, GlobSuffix("AlbumYaml")) # <<>>

-----------------------------------------------------------------------------
(* C17 *)

\* The paths that stage s removed.
RemovedBy(s) ==
    {events[k].path : k \in {j \in DOMAIN events :
        events[j].kind = "remove" /\ events[j].stage = s /\ events[j].res = "ok"}}

\* Event e is a removal that a sidecar or album stage made with success.
SingleRemoval(e) == e.kind = "remove" /\ e.res = "ok" /\ e.stage # "Cache"

\* C17: once a cache stage whose enumeration succeeded is over without a
\* failed removal, nothing is left below the cache path at any depth and the
\* cache path itself is still a directory. The sidecar and album stages
\* remove single entries: what is gone outside the cache is exactly the
\* paths they removed with success, one entry each, and no entry is ever
\* gone while something it held is still there (no directory was removed
\* with its content).
C17_CacheClearedOthersSingleEntries ==
    /\ (Over("Cache") /\ Happened("glob", "Cache", "ok") /\ ~Happened("remove", "Cache", "fail")) =>
        /\ Descendants(fs, Path(CachePath, <<>>)) = {}
        /\ IsDir(fs, Path(CachePath, <<>>))
    /\ \A r \in Roots : IsDir(fs, Path(r, <<>>))
    /\ fs # fs0 =>
        /\ \A p \in DOMAIN fs0 :
            (p.root # CachePath /\ ~Exists(fs, p)) =>
                \E k \in DOMAIN events : SingleRemoval(events[k]) /\ events[k].path = p
        /\ \A k \in DOMAIN events :
            SingleRemoval(events[k]) =>
                /\ Exists(fs0, events[k].path)
                /\ ~Exists(fs, events[k].path)
                /\ \A q \in DOMAIN fs : ~Below(events[k].path, q)

\* C17 witness: the cache held files down to the third level and is empty
\* after two successful removals; the album stage tried to remove the
\* directory x/n.yml, which holds a file, and failed; the run is over.
C17_Witness ==
    /\ Done
    /\ Exists(fs0, Path(CachePath, <<Name("x", ""), Name("y", ""), Name("t", "jpg")>>))
    /\ Len(Removals("Cache")) = 2
    /\ ~Happened("remove", "Cache", "fail")
    /\ Descendants(fs, Path(CachePath, <<>>)) = {}
    /\ \E k \in DOMAIN events : events[k] = Ev("remove", "AlbumYaml", AlbumDir, "fail")
    /\ Exists(fs, AlbumDirFile)
    /\ Happened("remove", "AlbumYaml", "ok")

-----------------------------------------------------------------------------
(* C18 *)

\* C18: when conf.Init() fails, whatever the flags, resetAction has returned
\* that error and the failed bootstrap is all that happened: no prompt was
\* shown or answered, no table dropped or migrated, nothing enumerated,
\* nothing removed or printed, and the files and the database are as they
\* were.
C18_BootstrapFailureTouchesNothing ==
    BootstrapFailed =>
        /\ Done
        /\ result = Err("init", "Start")
        /\ events = <<Ev("init", "Start", NoPath, "fail")>>
        /\ answer = "none"
        /\ ~resetIndex
        /\ \A s \in FileStages : matches[s] = <<>>
        /\ out = <<>>
        /\ fs = fs0
        /\ db = [tables |-> "indexed", admin |-> "old"]

\* C18 witness: conf.Init() failed in a run with --yes and --index over a
\* tree with cache files.
C18_Witness ==
    /\ BootstrapFailed
    /\ ctx.yes
    /\ ctx.index
    /\ Glob(fs, CachePath, GlobSuffix("Cache")) # <<>>
    /\ result.err = "init"

-----------------------------------------------------------------------------
(* C19 *)

\* The paths a step of file stage s may remove.
Own(s) ==
    CASE s = "Cache" -> {p \in DOMAIN fs : p.root = CachePath /\ Depth(p) >= 1}
      [] s = "SidecarJson" ->
            {p \in Range(matches[s]) : p.root = SidecarPath /\ Base(p).ext = "json"}
      [] s = "SidecarYaml" ->
            {p \in Range(matches[s]) : p.root = SidecarPath /\ Base(p).ext = "yml"}
      [] s = "AlbumYaml" ->
            {p \in Range(matches[s]) : p.root = AlbumsPath /\ Base(p).ext = "yml"}

\* What one step may change: outside a removal loop the files stay as they
\* are; a step of the removal loop of stage s removes nothing but paths of
\* Own(s) and leaves every other entry as it is; and a step of a file stage
\* (its prompt, its enumeration, its removals) leaves the database alone.
StepFrame ==
    /\ pc # "remove" => fs' = fs
    /\ pc = "remove" =>
        /\ (DOMAIN fs \ DOMAIN fs') \subseteq Own(stage)
        /\ DOMAIN fs' \subseteq DOMAIN fs
        /\ \A p \in DOMAIN fs' : fs'[p] = fs[p]
    /\ pc \in {"prompt", "glob", "remove"} => (stage \in FileStages /\ db' = db)
    /\ pc \in {"start", "index", "drop", "migrate", "initpw", "index_only"} => stage = "Index"

\* C19: every step of every run keeps to the resource of its stage: the
\* index stage removes no file; the cache stage removes only paths below the
\* cache path; the *.json sidecar stage only matched *.json paths below the
\* sidecar path, the *.yml sidecar stage only matched *.yml paths below it,
\* the album stage only matched *.yml paths below the albums path; and no
\* file stage changes the database.
C19_StagesKeepToTheirResource == [][StepFrame]_vars

\* C19 witness: a run is over in which the schema was reset and each of the
\* four file stages removed something.
C19_Witness ==
    /\ Done
    /\ db.tables = "default"
    /\ \A s \in FileStages : RemovedBy(s) # {}
    /\ fs # fs0

-----------------------------------------------------------------------------
(* C20 *)

\* The runs over the trees of up to MaxDepth populated levels.
FairInit == Init /\ \E top \in 0..MaxDepth : fs = Layout(top)

\* resetAction runs in one goroutine and no step waits for another: a run in
\* which every prompt is answered and every call returns is one in which the
\* step that is enabled is eventually taken.
FairSpec == FairInit /\ [][Next]_vars /\ WF_vars(Next)

\* The ways resetAction returns: the error of conf.Init(), nil (after the
\* index alone or after the album stage), or the error of the album Glob.
Terminal ==
    /\ Done
    /\ result.returned
    /\ \/ result = Err("init", "Start") /\ BootstrapFailed
       \/ result = Nil /\ BootstrapOk
       \/ result = Err("glob", "AlbumYaml") /\ Happened("glob", "AlbumYaml", "fail")

\* The number of prompts shown so far.
PromptCount == Cardinality({k \in DOMAIN events : events[k].kind = "prompt"})

\* A step that leaves a removal loop (for the next prompt or the return) is
\* the removal of the last element, and the events end with one removal for
\* each element of the MatchSet, in its order.
LoopRunsToItsEnd ==
    (pc = "remove" /\ pc' # "remove") =>
        LET n == Len(matches[stage])
            last == Len(events')
        IN  /\ i = n
            /\ last >= n
            /\ \A j \in 1..n :
                /\ events'[last - n + j].kind = "remove"
                /\ events'[last - n + j].stage = stage
                /\ events'[last - n + j].path = matches[stage][j]

\* C20: when every prompt is answered and every call returns, a run reaches a
\* terminal state (the bootstrap error, nil, or the album enumeration error);
\* it never shows more than five prompts; a removal loop that has begun is
\* left, and only by the removal of the last element of its MatchSet, after
\* one removal for each element; and a run that is over takes no further step.
C20_RunsTerminate ==
    /\ <>Terminal
    /\ [](PromptCount <= 5)
    /\ (pc = "remove") ~> (pc # "remove")
    /\ [][LoopRunsToItsEnd]_vars
    /\ [][~Done]_vars

\* C20 witness: a run is over with nil after five prompts, four of them
\* accepted, and the removal loop of the *.json sidecar stage went over two
\* or more matches of which one removal failed.
C20_Witness ==
    /\ Terminal
    /\ result = Nil
    /\ PromptCount = 5
    /\ \A s \in FileStages : Accepted(s)
    /\ Len(matches["SidecarJson"]) >= 2
    /\ Happened("remove", "SidecarJson", "fail")
    /\ Happened("remove", "SidecarJson", "ok")

====
